---- MODULE Spec2Model ----
(***************************************************************************)
(* lucet-validate: validate(interface, module_contents).                   *)
(*                                                                         *)
(* A WebAssembly module is abstracted to the sequence of its sections and  *)
(* each section to the sequence of its entries, which is what the section  *)
(* walk of validate reads.  One behaviour is one call of validate: Init    *)
(* draws the two arguments, the actions are the steps of the call (the     *)
(* structural gate, one step per section read and per section entry) and   *)
(* pc = "done" is the return.                                              *)
(***************************************************************************)
EXTENDS Naturals, Sequences, FiniteSets

\* ------------------------------------------------------------- bounds

\* Size of a module: one per section entry and one per section without
\* entries.
MaxSize == 5

\* ------------------------------------------------------------- values

None == [some |-> FALSE]

Some(v) == [some |-> TRUE, value |-> v]

\* wasmparser::Type, the two value types the model draws from.
ValTypes == {"I32", "I64"}

\* struct FuncSignature { params, returns }
FuncSignature(params, returns) == [params |-> params, returns |-> returns]

\* struct Func { ty, import }
Func(ty, import) == [ty |-> ty, import |-> import]

\* enum Error
WasmValidation(message, offset) ==
  [kind |-> "WasmValidation", message |-> message, offset |-> offset]

Unsupported(text) == [kind |-> "Unsupported", text |-> text]

\* Result<(), Error>
Ok == [kind |-> "Ok"]

\* Variant of FromBinaryReaderError that loses the offset.
FromBinaryReaderErrorDropOffset(e) == WasmValidation(e.message, 0)

\* impl From<wasmparser::BinaryReaderError> for Error

FromBinaryReaderError(e) == WasmValidation(e.message, e.offset)

\* Variant of ImportText with the two names in the other order.
ImportTextSwapped(kind, import) ==
  <<kind, " import ", import.field, ":", import.module>>

\* format!("{kind} import {}:{}", import.module, import.field): the text as
\* the sequence of its pieces, in the order they are written.

ImportText(kind, import) ==
  <<kind, " import ", import.module, ":", import.field>>

\* "type section entry".to_string()
TypeEntryText == <<"type section entry">>

\* PrimaryMap::push: the new entry gets the next index; index i is held at
\* position i + 1 of the sequence.
Push(map, v) == Append(map, v)

\* Variant of Insert that keeps the value of an existing key.
InsertKeepFirst(map, k, v) ==
  [x \in DOMAIN map \cup {k} |-> IF x \in DOMAIN map THEN map[x] ELSE v]

\* HashMap::insert: the value of an existing key is replaced.

Insert(map, k, v) ==
  [x \in DOMAIN map \cup {k} |-> IF x = k THEN v ELSE map[x]]

\* HashMap::new()
EmptyMap == [x \in {} |-> 0]

\* ------------------------------------------------------------- inputs

SeqsUpTo(S, n) == UNION {[1..k -> S] : k \in 0..n}

\* wasmparser::FuncType entries of a type section: two function forms and
\* one entry of another form.
Signatures == {FuncSignature(<<p>>, <<"I32">>) : p \in ValTypes}

TypeEntries ==
  {[form |-> "Func", params |-> s.params, returns |-> s.returns] :
     s \in Signatures}
  \cup {[form |-> "EmptyBlockType", params |-> <<>>, returns |-> <<>>]}

\* wasmparser::Import entries: module, field and ImportSectionEntryType (the
\* type index of a function import; the descriptor of another import is
\* never read).
FunctionImportNames == {<<"env", "abort">>, <<"env", "log">>}

OtherImports ==
  {[module |-> "env", field |-> "mem", kind |-> "Memory", index |-> 0],
   [module |-> "env", field |-> "tbl", kind |-> "Table", index |-> 0],
   [module |-> "sys", field |-> "g", kind |-> "Global", index |-> 0]}

ImportEntries(ntypes) ==
  {[module |-> n[1], field |-> n[2], kind |-> "Function", index |-> i] :
     n \in FunctionImportNames, i \in 0..(ntypes - 1)}
  \cup OtherImports

\* Function-section entries: type indices.
FunctionEntries(ntypes) == 0..(ntypes - 1)

\* wasmparser::Export entries: field, ExternalKind and index.
ExportNames == {"double", "start"}

ExportEntries(nfuncs) ==
  {[field |-> f, kind |-> "Function", index |-> i] :
     f \in ExportNames, i \in 0..(nfuncs - 1)}
  \cup {[field |-> "memory", kind |-> k, index |-> 0] :
     k \in {"Memory", "Table", "Global"}}

\* Section kinds in the order of their ids in the binary format; the walk
\* has an arm for the first four and ignores the others.
Rank(kind) ==
  CASE kind = "Type" -> 1
    [] kind = "Import" -> 2
    [] kind = "Function" -> 3
    [] kind = "Memory" -> 5
    [] kind = "Export" -> 7
    [] kind = "Code" -> 10

RECURSIVE Size(_)
Size(m) ==
  IF m = <<>> THEN 0
  ELSE (IF Head(m).entries = <<>> THEN 1 ELSE Len(Head(m).entries))
       + Size(Tail(m))

\* All entries of the sections of a kind, in the order of the binary.
RECURSIVE EntriesOf(_, _)
EntriesOf(m, kind) ==
  IF m = <<>> THEN <<>>
  ELSE (IF Head(m).kind = kind THEN Head(m).entries ELSE <<>>)
       \o EntriesOf(Tail(m), kind)

IsFunction(e) == e.kind = "Function"

FunctionImports(m) == SelectSeq(EntriesOf(m, "Import"), IsFunction)

\* Sizes of the two index spaces of the binary.
NumTypes(m) == Len(EntriesOf(m, "Type"))

NumFuncs(m) == Len(FunctionImports(m)) + Len(EntriesOf(m, "Function"))

SectionOf(kind, entries) == [kind |-> kind, entries |-> entries]

\* A section of the kind, or none, within the size left.
SectionsOf(kind, entries, n) ==
  {<<>>} \cup
  (IF n >= 1
     THEN {<<SectionOf(kind, e)>> : e \in SeqsUpTo(entries, n)}
     ELSE {})

\* A module whose sections are in the order of the binary format and whose
\* indices are within the binary's index spaces.
WellFormed(m) ==
  \E t \in SectionsOf("Type", TypeEntries, MaxSize) :
  \E i \in SectionsOf("Import", ImportEntries(NumTypes(t)),
                      MaxSize - Size(t)) :
  \E f \in SectionsOf("Function", FunctionEntries(NumTypes(t)),
                      MaxSize - Size(t \o i)) :
  \E y \in SectionsOf("Memory", {}, MaxSize - Size(t \o i \o f)) :
  \E e \in SectionsOf("Export", ExportEntries(NumFuncs(i \o f)),
                      MaxSize - Size(t \o i \o f \o y)) :
  \E c \in SectionsOf("Code", {}, MaxSize - Size(t \o i \o f \o y \o e)) :
    m = t \o i \o f \o y \o e \o c

\* Modules with two sections out of order, with a section twice, or with a
\* function or an export whose index is one past its index space.
Malformed ==
  {<<SectionOf("Import", i), SectionOf("Type", t)>> :
     t \in SeqsUpTo(TypeEntries, 1), i \in SeqsUpTo(ImportEntries(1), 1)}
  \cup {<<SectionOf("Type", t), SectionOf("Type", t)>> :
          t \in SeqsUpTo(TypeEntries, 2)}
  \cup {<<SectionOf("Type", t), SectionOf("Function", <<Len(t)>>)>> :
          t \in SeqsUpTo(TypeEntries, MaxSize - 1)}
  \cup {<<SectionOf("Type", t), SectionOf("Function", f),
          SectionOf("Export", <<[field |-> "double", kind |-> "Function",
                                 index |-> Len(f)]>>)>> :
          t \in [1..1 -> TypeEntries], f \in SeqsUpTo(FunctionEntries(1), 1)}

\* witx::Document, as the signature it declares for each function name.
Interfaces == {[n \in {"double"} |-> FuncSignature(<<"I64">>, <<"I32">>)]}

\* Errors of the external structural validator.
BinaryReaderErrors ==
  {[message |-> "section out of order", offset |-> 8],
   [message |-> "type index out of bounds", offset |-> 10]}

\* ------------------------------------------------- the structural gate

\* What wasmparser::validate guarantees of a module it accepts: sections in
\* the order of the format, each at most once, and every type index and
\* function index within the binary's own index spaces.
StructurallyValid(m) ==
  /\ \A i \in 1..Len(m) : \A j \in 1..Len(m) :
       i < j => Rank(m[i].kind) < Rank(m[j].kind)
  /\ LET ntypes == NumTypes(m)
         imports == EntriesOf(m, "Import")
         locals == EntriesOf(m, "Function")
         exports_ == EntriesOf(m, "Export")
         nfuncs == NumFuncs(m)
     IN /\ \A i \in 1..Len(imports) :
             IsFunction(imports[i]) => imports[i].index < ntypes
        /\ \A i \in 1..Len(locals) : locals[i] < ntypes
        /\ \A i \in 1..Len(exports_) :
             IsFunction(exports_[i]) => exports_[i].index < nfuncs

\* ------------------------------------------------------------- state

VARIABLES
  module_contents,  \* the module, as the sections a reader finds in it
  interface,        \* the witx document (validate never reads it)
  pc,               \* position in validate
  gate,             \* what wasmparser::validate returned
  sec,              \* number of sections module_reader has read
  ent,              \* position of the entry at hand in its section
  types,            \* module.types
  funcs,            \* module.funcs
  exports,          \* module.exports
  result            \* what validate returned

vars ==
  <<module_contents, interface, pc, gate, sec, ent, types, funcs, exports,
    result>>

Init ==
  /\ \/ WellFormed(module_contents)
     \/ module_contents \in Malformed
  /\ interface \in Interfaces
  /\ pc = "start"
  /\ gate = None
  /\ sec = 0
  /\ ent = 0
  /\ types = <<>>
  /\ funcs = <<>>
  /\ exports = EmptyMap
  /\ result = None

Section == module_contents[sec]

Entry == Section.entries[ent]

\* The entry at hand is done: on to the next entry of the section, or back
\* to the head of the section loop after the last.
NextEntry ==
  IF ent < Len(Section.entries)
    THEN /\ ent' = ent + 1
         /\ pc' = pc
    ELSE /\ ent' = 0
         /\ pc' = "read"

\* Err(e)?: validate returns the error.
Fail(e) ==
  /\ result' = Some(e)
  /\ pc' = "done"

\* wasmparser::validate(module_contents, None)? fails.
GateFail ==
  /\ pc = "start"
  /\ \E e \in BinaryReaderErrors :
       /\ gate' = Some(e)
       /\ Fail(FromBinaryReaderError(e))
  /\ UNCHANGED <<module_contents, interface, sec, ent, types, funcs, exports>>

\* wasmparser::validate succeeds; the empty ModuleType and the reader.
GatePass ==
  /\ pc = "start"
  /\ StructurallyValid(module_contents)
  /\ gate' = Some(Ok)
  /\ types' = <<>>
  /\ funcs' = <<>>
  /\ exports' = EmptyMap
  /\ pc' = "read"
  /\ UNCHANGED <<module_contents, interface, sec, ent, result>>

Walked == {"Type", "Import", "Export", "Function"}

\* module_reader.read() of a section the walk has an arm for.
ReadSection ==
  /\ pc = "read"
  /\ sec < Len(module_contents)
  /\ module_contents[sec + 1].kind \in Walked
  /\ sec' = sec + 1
  /\ IF module_contents[sec + 1].entries = <<>>
       THEN /\ pc' = "read"
            /\ ent' = 0
       ELSE /\ pc' = module_contents[sec + 1].kind
            /\ ent' = 1
  /\ UNCHANGED <<module_contents, interface, gate, types, funcs, exports,
                 result>>

\* _ => {}: any other section.
OtherSection ==
  /\ pc = "read"
  /\ sec < Len(module_contents)
  /\ module_contents[sec + 1].kind \notin Walked
  /\ sec' = sec + 1
  /\ UNCHANGED <<module_contents, interface, pc, gate, ent, types, funcs,
                 exports, result>>

\* A type-section entry of function form.
TypeEntryFunc ==
  /\ pc = "Type"
  /\ Entry.form = "Func"
  /\ types' = Push(types, FuncSignature(Entry.params, Entry.returns))
  /\ NextEntry
  /\ UNCHANGED <<module_contents, interface, gate, sec, funcs, exports,
                 result>>

\* Variant of TypeEntryOther that skips the entry.
TypeEntrySkipped ==
  /\ pc = "Type"
  /\ Entry.form # "Func"
  /\ NextEntry
  /\ UNCHANGED <<module_contents, interface, gate, sec, types, funcs,
                 exports, result>>

\* A type-section entry of any other form.
TypeEntryOther ==
  /\ pc = "Type"
  /\ Entry.form # "Func"
  /\ Fail(Unsupported(TypeEntryText))
  /\ UNCHANGED <<module_contents, interface, gate, sec, ent, types, funcs,
                 exports>>

\* Variant of ImportedFunc without the origin.
ImportedFuncNoOrigin(import) == Func(import.index, None)

\* Func { ty, import: Some((module, field)) }
ImportedFunc(import) ==
  Func(import.index, Some(<<import.module, import.field>>))

ImportFunction ==
  /\ pc = "Import"
  /\ Entry.kind = "Function"
  /\ funcs' = Push(funcs, ImportedFunc(Entry))
  /\ NextEntry
  /\ UNCHANGED <<module_contents, interface, gate, sec, types, exports,
                 result>>

\* Variant of ImportMemory that notes the error and goes on.
ImportMemoryContinue ==
  /\ pc = "Import"
  /\ Entry.kind = "Memory"
  /\ result' = Some(Unsupported(ImportText("memory", Entry)))
  /\ NextEntry
  /\ UNCHANGED <<module_contents, interface, gate, sec, types, funcs, exports>>

ImportMemory ==
  /\ pc = "Import"
  /\ Entry.kind = "Memory"
  /\ Fail(Unsupported(ImportText("memory", Entry)))
  /\ UNCHANGED <<module_contents, interface, gate, sec, ent, types, funcs,
                 exports>>

ImportTable ==
  /\ pc = "Import"
  /\ Entry.kind = "Table"
  /\ Fail(Unsupported(ImportText("table", Entry)))
  /\ UNCHANGED <<module_contents, interface, gate, sec, ent, types, funcs,
                 exports>>

ImportGlobal ==
  /\ pc = "Import"
  /\ Entry.kind = "Global"
  /\ Fail(Unsupported(ImportText("global", Entry)))
  /\ UNCHANGED <<module_contents, interface, gate, sec, ent, types, funcs,
                 exports>>

ExportFunction ==
  /\ pc = "Export"
  /\ Entry.kind = "Function"
  /\ exports' = Insert(exports, Entry.field, Entry.index)
  /\ NextEntry
  /\ UNCHANGED <<module_contents, interface, gate, sec, types, funcs, result>>

\* Variant of ExportOther that records the export.
ExportOtherRecorded ==
  /\ pc = "Export"
  /\ Entry.kind # "Function"
  /\ exports' = Insert(exports, Entry.field, Entry.index)
  /\ NextEntry
  /\ UNCHANGED <<module_contents, interface, gate, sec, types, funcs, result>>

\* _ => {}: any other export.
ExportOther ==
  /\ pc = "Export"
  /\ Entry.kind # "Function"
  /\ NextEntry
  /\ UNCHANGED <<module_contents, interface, gate, sec, types, funcs,
                 exports, result>>

\* Func { ty, import: None }
LocalFunc(ty) == Func(ty, None)

\* Variant of FunctionEntry that puts the entry first.
FunctionEntryFront ==
  /\ pc = "Function"
  /\ funcs' = <<Func(Entry, None)>> \o funcs
  /\ NextEntry
  /\ UNCHANGED <<module_contents, interface, gate, sec, types, exports,
                 result>>

FunctionEntry ==
  /\ pc = "Function"
  /\ funcs' = Push(funcs, LocalFunc(Entry))
  /\ NextEntry
  /\ UNCHANGED <<module_contents, interface, gate, sec, types, exports,
                 result>>

\* module_reader.eof(): Ok(())
Finish ==
  /\ pc = "read"
  /\ sec = Len(module_contents)
  /\ result' = Some(Ok)
  /\ pc' = "done"
  /\ UNCHANGED <<module_contents, interface, gate, sec, ent, types, funcs,
                 exports>>

Next ==
  \/ GateFail
  \/ GatePass
  \/ ReadSection
  \/ OtherSection
  \/ TypeEntryFunc
  \/ TypeEntryOther
  \/ ImportFunction
  \/ ImportMemory
  \/ ImportTable
  \/ ImportGlobal
  \/ ExportFunction
  \/ ExportOther
  \/ FunctionEntry
  \/ Finish

Spec == Init /\ [][Next]_vars

\* ------------------------------------------------- what the claims read

Returned == pc = "done"

GatePassed == gate = [some |-> TRUE, value |-> [kind |-> "Ok"]]

GateFailed == gate.some /\ gate.value # [kind |-> "Ok"]

Succeeded == Returned /\ result = [some |-> TRUE, value |-> [kind |-> "Ok"]]

ReturnedUnsupported(text) ==
  /\ Returned
  /\ result = [some |-> TRUE,
               value |-> [kind |-> "Unsupported", text |-> text]]

\* The text an unsupported import is reported with.
KindName(kind) ==
  CASE kind = "Memory" -> "memory"
    [] kind = "Table" -> "table"
    [] kind = "Global" -> "global"

ExpectedImportText(e) ==
  <<KindName(e.kind), " import ", e.module, ":", e.field>>

\* The function entry a function import and a function-section entry stand
\* for.
ExpectedImported(e) ==
  [ty |-> e.index,
   import |-> [some |-> TRUE, value |-> <<e.module, e.field>>]]

ExpectedLocal(ty) == [ty |-> ty, import |-> [some |-> FALSE]]

ExpectedSignature(e) == [params |-> e.params, returns |-> e.returns]

\* The tables a module's entries build when all of them are processed.
ExpectedTypes(m) ==
  LET es == EntriesOf(m, "Type")
  IN [i \in 1..Len(es) |-> ExpectedSignature(es[i])]

ExpectedFuncs(m) ==
  LET imps == FunctionImports(m)
      locs == EntriesOf(m, "Function")
  IN [i \in 1..(Len(imps) + Len(locs)) |->
        IF i <= Len(imps) THEN ExpectedImported(imps[i])
        ELSE ExpectedLocal(locs[i - Len(imps)])]

FunctionExports(m) == SelectSeq(EntriesOf(m, "Export"), IsFunction)

ExpectedExports(m) ==
  LET es == FunctionExports(m)
      Last(n) == CHOOSE i \in 1..Len(es) :
                   /\ es[i].field = n
                   /\ \A j \in (i + 1)..Len(es) : es[j].field # n
  IN [n \in {es[i].field : i \in 1..Len(es)} |-> es[Last(n)].index]

\* The entries the walk cannot process, by position (section, entry).
IsDefect(m, p) ==
  \/ m[p[1]].kind = "Type" /\ m[p[1]].entries[p[2]].form # "Func"
  \/ m[p[1]].kind = "Import" /\ m[p[1]].entries[p[2]].kind # "Function"

Defects(m) ==
  {p \in UNION {{<<i, j>> : j \in 1..Len(m[i].entries)} : i \in 1..Len(m)} :
     IsDefect(m, p)}

Before(p, q) == p[1] < q[1] \/ (p[1] = q[1] /\ p[2] < q[2])

FirstDefect(m) ==
  CHOOSE p \in Defects(m) : \A q \in Defects(m) : p = q \/ Before(p, q)

\* The part of a module before position p.
Upto(m, p) ==
  [i \in 1..p[1] |->
     IF i < p[1] THEN m[i]
     ELSE [kind |-> m[i].kind, entries |-> SubSeq(m[i].entries, 1, p[2] - 1)]]

\* The part of the module the walk has processed.
Processed ==
  IF pc = "start" \/ GateFailed THEN <<>>
  ELSE IF pc = "read" \/ Succeeded THEN SubSeq(module_contents, 1, sec)
  ELSE Upto(module_contents, <<sec, ent>>)

AllTypesFunc(m) ==
  \A i \in 1..Len(EntriesOf(m, "Type")) :
    EntriesOf(m, "Type")[i].form = "Func"

OtherImportsOf(m) ==
  {i \in 1..Len(EntriesOf(m, "Import")) :
     ~IsFunction(EntriesOf(m, "Import")[i])}

\* ------------------------------------------------------------- claims

\* C1: when validate succeeds on a module with N function imports and M
\* function-section entries, the function table has exactly N + M entries:
\* the imports first, in import-section order, then the local functions, in
\* function-section order.
C1_FunctionTableOrder ==
  Succeeded =>
    LET imps == FunctionImports(module_contents)
        locs == EntriesOf(module_contents, "Function")
    IN /\ Len(funcs) = Len(imps) + Len(locs)
       /\ \A i \in 1..Len(imps) : funcs[i] = ExpectedImported(imps[i])
       /\ \A j \in 1..Len(locs) :
            funcs[Len(imps) + j] = ExpectedLocal(locs[j])

C1_Witness ==
  /\ Succeeded
  /\ Len(FunctionImports(module_contents)) >= 1
  /\ Len(EntriesOf(module_contents, "Function")) >= 1
  /\ Len(funcs) >= 3

\* C2, as stated: a module that passed the gate makes validate return, for
\* each memory, table or global import it has, the Unsupported error
\* naming that import.
C2_EveryUnsupportedImportIsReported ==
  (Returned /\ GatePassed) =>
    \A i \in OtherImportsOf(module_contents) :
      ReturnedUnsupported(
        ExpectedImportText(EntriesOf(module_contents, "Import")[i]))

\* C2, amended: a module that passed the gate, whose type-section entries
\* are all of function form and which has a memory, table or global import,
\* makes validate return the Unsupported error naming the first such import
\* by kind, namespace and field, whatever its other imports are.
C2_FirstUnsupportedImportIsReported ==
  (Returned /\ GatePassed /\ AllTypesFunc(module_contents)
     /\ OtherImportsOf(module_contents) # {}) =>
    LET first == CHOOSE i \in OtherImportsOf(module_contents) :
                   \A j \in OtherImportsOf(module_contents) : i <= j
    IN ReturnedUnsupported(
         ExpectedImportText(EntriesOf(module_contents, "Import")[first]))

C2_Witness ==
  /\ Returned
  /\ GatePassed
  /\ AllTypesFunc(module_contents)
  /\ Len(EntriesOf(module_contents, "Import")) >= 3
  /\ IsFunction(EntriesOf(module_contents, "Import")[1])
  /\ ~IsFunction(EntriesOf(module_contents, "Import")[2])
  /\ result.value.kind = "Unsupported"

\* C3: when the structural validator rejects the buffer, validate reads no
\* section, no table receives an entry, and the WasmValidation error it
\* returns carries the validator's message and offset; a module that is not
\* structurally valid never gets past the gate.
C3_GatePrecedence ==
  /\ GateFailed =>
       /\ Returned
       /\ result = [some |-> TRUE,
                    value |-> [kind |-> "WasmValidation",
                               message |-> gate.value.message,
                               offset |-> gate.value.offset]]
       /\ sec = 0
       /\ ent = 0
       /\ types = <<>>
       /\ funcs = <<>>
       /\ DOMAIN exports = {}
  /\ (pc # "start" /\ ~StructurallyValid(module_contents)) => GateFailed

C3_Witness ==
  /\ GateFailed
  /\ Returned
  /\ Len(module_contents) >= 2
  /\ Size(module_contents) >= 3

\* C4: validate succeeds only if every function name the interface declares
\* has an entry in the export table.
C4_MissingExportFails ==
  Succeeded => \A n \in DOMAIN interface : n \in DOMAIN exports

\* C5: validate succeeds only if every function name the interface declares
\* and the module exports resolves, through its function entry and type
\* index, to the signature the interface declares.
C5_SignatureMismatchFails ==
  Succeeded =>
    \A n \in DOMAIN interface \cap DOMAIN exports :
      types[funcs[exports[n] + 1].ty + 1] = interface[n]

\* C6: after a walk without error the export table maps every name of a
\* function export to the index of the last function export of that name
\* and holds nothing else, and an export section reached without error
\* raises none, duplicates or not.
C6_LastExportWins ==
  /\ Succeeded => exports = ExpectedExports(module_contents)
  /\ (Returned /\ GatePassed /\ Defects(module_contents) = {}) => Succeeded

C6_Witness ==
  /\ Succeeded
  /\ \E i \in 1..Len(FunctionExports(module_contents)) :
       \E j \in (i + 1)..Len(FunctionExports(module_contents)) :
         LET es == FunctionExports(module_contents)
         IN es[i].field = es[j].field /\ es[i].index # es[j].index

\* C7: when a type-section entry is not of function form, validate returns
\* Unsupported("type section entry") at the first such entry: the signature
\* table holds the function-form entries before it, each at the index of
\* its position, the function table and the export table are empty, and no
\* later entry or section is read.
C7_TypeSectionEntry ==
  (Returned /\ GatePassed /\ ~AllTypesFunc(module_contents)) =>
    LET p == FirstDefect(module_contents)
    IN /\ module_contents[p[1]].kind = "Type"
       /\ ReturnedUnsupported(<<"type section entry">>)
       /\ <<sec, ent>> = p
       /\ types = [i \in 1..(p[2] - 1) |->
                     ExpectedSignature(module_contents[p[1]].entries[i])]
       /\ funcs = <<>>
       /\ DOMAIN exports = {}

C7_Witness ==
  /\ ReturnedUnsupported(<<"type section entry">>)
  /\ Len(types) >= 1
  /\ sec < Len(module_contents)
  /\ ent < Len(module_contents[sec].entries)

\* C8: a step that processes a memory, table or global export, or a section
\* other than type, import, export and function, changes none of the three
\* tables and raises no error; a module without function exports whose walk
\* meets no unsupported entry is accepted with an empty export table.
C8_OtherExportsAndSectionsAreInert ==
  /\ [][((pc = "Export" /\ Entry.kind # "Function")
          \/ (pc = "read" /\ sec < Len(module_contents)
                /\ module_contents[sec + 1].kind
                     \notin {"Type", "Import", "Export", "Function"}))
        => (/\ types' = types
            /\ funcs' = funcs
            /\ exports' = exports
            /\ result' = [some |-> FALSE]
            /\ pc' # "done")]_vars
  /\ []((Returned /\ GatePassed /\ Defects(module_contents) = {}
           /\ FunctionExports(module_contents) = <<>>)
          => (Succeeded /\ DOMAIN exports = {}))

C8_Witness ==
  /\ Succeeded
  /\ EntriesOf(module_contents, "Export") # <<>>
  /\ FunctionExports(module_contents) = <<>>
  /\ \E i \in 1..Len(module_contents) : module_contents[i].kind = "Memory"
  /\ funcs # <<>>
  /\ DOMAIN exports = {}

\* C9: validate returns the error of the first failing step in binary
\* order: the gate's, else that of the first entry the walk cannot process,
\* else none.  At the return the cursor is at the failing entry and the
\* tables hold what the entries before it built.
C9_FailFast ==
  Returned =>
    /\ result.some
    /\ IF GateFailed
         THEN /\ result.value = [kind |-> "WasmValidation",
                                 message |-> gate.value.message,
                                 offset |-> gate.value.offset]
              /\ sec = 0
       ELSE IF Defects(module_contents) = {}
         THEN /\ result.value = [kind |-> "Ok"]
              /\ sec = Len(module_contents)
       ELSE LET p == FirstDefect(module_contents)
                e == module_contents[p[1]].entries[p[2]]
            IN /\ result.value =
                    [kind |-> "Unsupported",
                     text |-> IF module_contents[p[1]].kind = "Type"
                                THEN <<"type section entry">>
                                ELSE ExpectedImportText(e)]
               /\ <<sec, ent>> = p
    /\ types = ExpectedTypes(Processed)
    /\ funcs = ExpectedFuncs(Processed)
    /\ exports = ExpectedExports(Processed)

C9_Witness ==
  /\ Returned
  /\ GatePassed
  /\ Cardinality(Defects(module_contents)) >= 2
  /\ \E p \in Defects(module_contents) : module_contents[p[1]].kind = "Type"
  /\ \E p \in Defects(module_contents) : module_contents[p[1]].kind = "Import"
  /\ types # <<>>

\* C10: in every state of the walk the function table holds one entry per
\* function import and function-section entry processed so far, in that
\* order: it has an origin exactly when it was appended for an import, the
\* import's (module, field), and it carries the declared type index as it
\* is.  Entries in the table are never changed or removed.
C10_FunctionEntries ==
  /\ [](funcs = ExpectedFuncs(Processed))
  /\ [][/\ Len(funcs') >= Len(funcs)
        /\ SubSeq(funcs', 1, Len(funcs)) = funcs]_vars

C10_Witness ==
  /\ ~Returned
  /\ \E i \in 1..Len(funcs) : funcs[i].import.some /\ funcs[i].ty = 1
  /\ \E i \in 1..Len(funcs) : ~funcs[i].import.some /\ funcs[i].ty = 0

====
